---- MODULE Spec2Model ----
(***************************************************************************)
(* Model of src/datasets/commands/datasets_cli.py: the datasets-cli        *)
(* argument router.  main() builds an argparse parser with three           *)
(* subcommands, parses the process arguments, folds the unrecognised       *)
(* tokens into keyword options (parse_unknown_args), calls the selected    *)
(* subcommand's factory and runs the service it returns.                   *)
(*                                                                         *)
(* A token is a sequence of atoms.  The atom "-" is one dash character;    *)
(* every other atom is a dash-free piece of text, so <<"-","-","verbose">> *)
(* is the token --verbose.  str.lstrip("-") only tells dashes from other   *)
(* characters, which is all the atoms have to keep apart.                  *)
(***************************************************************************)
EXTENDS Integers, Sequences, FiniteSets, TLC

VARIABLES
    pc,            \* position of main() (the line it executes next)
    argv,          \* sys.argv[1:], read by parse_known_args at line 27
    verbosity,     \* process-wide logging verbosity
    subparsers,    \* commands_parser: the registered subcommands, in order
    args,          \* the Namespace returned by parse_known_args
    unknown_args,  \* the leftover tokens returned by parse_known_args
    kwargs,        \* the dict built by parse_unknown_args
    factoryCalls,  \* calls of args.func made so far: (args, kwargs) received
    service,       \* the object returned by the factory
    runCalls,      \* number of service.run() calls made so far
    runReturned,   \* what service.run() returned
    exitCode,      \* the process's exit status, -1 while it runs
    log            \* observable events in the order they happened

vars == <<pc, argv, verbosity, subparsers, args, unknown_args, kwargs,
          factoryCalls, service, runCalls, runReturned, exitCode, log>>

(***************************************************************************)
(* Bounds                                                                   *)
(***************************************************************************)
MaxArgs == 4
MaxUnknown == 4

(***************************************************************************)
(* Tokens                                                                   *)
(***************************************************************************)
Dash == "-"

TokEnv == <<"env">>
TokTest == <<"test">>
TokDelete == <<"delete_from_hub">>
TokWord == <<"true">>
TokHelp == <<"-", "h">>
TokLongKey == <<"-", "-", "verbose">>
TokShortKey == <<"-", "verbose">>
TokDashOnly == <<"-">>
TokDashDash == <<"-", "-">>
TokSaveInfo == <<"-", "-", "save_info">>

\* The command lines main() is run on.  "--" (argparse's positional
\* separator) is left out of the alphabet, as are abbreviations of declared
\* flags.
ArgvAlphabet ==
    {TokEnv, TokTest, TokDelete, TokWord, TokHelp, TokLongKey, TokShortKey,
     TokDashOnly, TokSaveInfo}

Argvs == UNION {[1..n -> ArgvAlphabet] : n \in 0..MaxArgs}

\* The token lists parse_unknown_args is applied to on its own.
UnknownAlphabet == {TokLongKey, TokShortKey, TokWord, TokDashOnly, TokDashDash}

UnknownLists == UNION {[1..n -> UnknownAlphabet] : n \in 0..MaxUnknown}

NoFunc == "NoFunc"
NoService == "NoService"
NotRun == "NotRun"

(***************************************************************************)
(* parse_unknown_args (lines 10-11)                                         *)
(***************************************************************************)
Min(a, b) == IF a <= b THEN a ELSE b

\* A variant of lstrip that removes at most one leading dash.
lstrip_one(tok) ==
    IF tok # <<>> /\ Head(tok) = Dash THEN Tail(tok) ELSE tok

\* key.lstrip("-"): drop leading dashes until the first other character.
RECURSIVE lstrip(_)
lstrip(tok) ==
    IF tok # <<>> /\ Head(tok) = Dash THEN lstrip(Tail(tok)) ELSE tok

\* unknown_args[::2]
EvenSlice(u) == [i \in 1..((Len(u) + 1) \div 2) |-> u[2 * i - 1]]

\* unknown_args[1::2]
OddSlice(u) == [i \in 1..(Len(u) \div 2) |-> u[2 * i]]

\* zip(a, b): stops at the shorter of the two.
Zip(a, b) == [i \in 1..Min(Len(a), Len(b)) |-> <<a[i], b[i]>>]

\* d[k] = v on a dict kept as its items in insertion order: an existing key
\* keeps its place and takes the new value, a new key goes last.
DictSet(d, k, v) ==
    IF \E i \in 1..Len(d) : d[i].key = k
    THEN [i \in 1..Len(d) |->
            IF d[i].key = k THEN [key |-> k, value |-> v] ELSE d[i]]
    ELSE Append(d, [key |-> k, value |-> v])

\* {key.lstrip("-"): value for key, value in pairs}
RECURSIVE DictComp(_, _)
DictComp(pairs, d) ==
    IF pairs = <<>> THEN d
    ELSE DictComp(Tail(pairs), DictSet(d, lstrip(Head(pairs)[1]), Head(pairs)[2]))

\* A variant that pads the shorter slice, so that a trailing key gets an
\* entry of its own (as itertools.zip_longest would).
parse_unknown_args_padded(unknown) ==
    DictComp([i \in 1..Len(EvenSlice(unknown)) |->
                <<EvenSlice(unknown)[i],
                  IF i <= Len(OddSlice(unknown))
                  THEN OddSlice(unknown)[i] ELSE <<"None">> >>], <<>>)

\* A variant that forgets the stride of the slices and pairs every token
\* with its successor: zip(unknown, unknown[1:]).
parse_unknown_args_overlapping(unknown) ==
    DictComp(Zip(unknown, IF unknown = <<>> THEN <<>> ELSE Tail(unknown)), <<>>)

parse_unknown_args(unknown) ==
    DictComp(Zip(EvenSlice(unknown), OddSlice(unknown)), <<>>)

(***************************************************************************)
(* The subcommands.  Their modules register a sub-parser under a name,     *)
(* with the flags they declare and set_defaults(func=<factory>).           *)
(***************************************************************************)
EnvSub == [name |-> TokEnv, flags |-> {}, func |-> "EnvironmentCommand"]
TestSub == [name |-> TokTest, flags |-> {TokSaveInfo}, func |-> "TestCommand"]
DeleteSub == [name |-> TokDelete, flags |-> {}, func |-> "DeleteFromHubCommand"]

(***************************************************************************)
(* parser.parse_known_args() (line 27) on the parser of lines 15-18:       *)
(* add_help is on, the sub-parsers action is the only positional and is    *)
(* not required.                                                           *)
(***************************************************************************)
EmptyNamespace == [func |-> NoFunc, flags |-> {}]

HelpFlags == {TokHelp}

\* argparse takes a token for an option when it starts with the prefix
\* character and is not the lone "-".
IsOptionalLike(tok) == Len(tok) > 1 /\ tok[1] = Dash

ParseResult(kind, ns, extras) == [kind |-> kind, args |-> ns, unknown |-> extras]

\* The sub-parser of a command on the tokens after its name: -h prints the
\* command's help and exits, a declared flag is stored, everything else is
\* left over, in order.
ParseSub(sub, toks) ==
    IF \E i \in 1..Len(toks) : toks[i] \in HelpFlags
    THEN ParseResult("help_exit", EmptyNamespace, <<>>)
    ELSE ParseResult("parsed",
                     [func |-> sub.func,
                      flags |-> {toks[i] : i \in {j \in 1..Len(toks) : toks[j] \in sub.flags}}],
                     SelectSeq(toks, LAMBDA t : t \notin sub.flags))

\* The top-level parser, scanning from token i: options it does not know
\* are left over, -h prints help and exits, and the first positional token
\* names the command, which takes all the tokens after it.
RECURSIVE ParseMain(_, _, _, _)
ParseMain(toks, i, extras, subs) ==
    IF i > Len(toks) THEN ParseResult("parsed", EmptyNamespace, extras)
    ELSE IF IsOptionalLike(toks[i])
    THEN IF toks[i] \in HelpFlags
         THEN ParseResult("help_exit", EmptyNamespace, <<>>)
         ELSE ParseMain(toks, i + 1, Append(extras, toks[i]), subs)
    ELSE IF \A k \in 1..Len(subs) : subs[k].name # toks[i]
    THEN ParseResult("error", EmptyNamespace, <<>>)
    ELSE LET sub == subs[CHOOSE k \in 1..Len(subs) : subs[k].name = toks[i]]
             r == ParseSub(sub, SubSeq(toks, i + 1, Len(toks)))
         IN  IF r.kind = "parsed"
             THEN ParseResult("parsed", r.args, extras \o r.unknown)
             ELSE r

\* A variant whose sub-parsers action accepts an unknown name and selects
\* nothing.
parse_known_args_lenient(tokens, subs) ==
    IF \E i \in 1..Len(tokens) :
          /\ ~IsOptionalLike(tokens[i])
          /\ \A j \in 1..(i - 1) : IsOptionalLike(tokens[j])
          /\ \A k \in 1..Len(subs) : subs[k].name # tokens[i]
    THEN ParseResult("parsed", EmptyNamespace, <<>>)
    ELSE ParseMain(tokens, 1, <<>>, subs)

\* A variant that hands every selected command the factory registered
\* first.
parse_known_args_first(tokens, subs) ==
    LET r == ParseMain(tokens, 1, <<>>, subs)
    IN  IF r.kind = "parsed" /\ r.args.func # NoFunc
        THEN ParseResult("parsed", [r.args EXCEPT !.func = subs[1].func], r.unknown)
        ELSE r

parse_known_args(tokens, subs) == ParseMain(tokens, 1, <<>>, subs)

\* A variant of the test of line 28 that always finds the attribute.
hasattr_func_always(ns) == TRUE

\* hasattr(args, "func")
hasattr_func(ns) == ns.func # NoFunc

(***************************************************************************)
(* main (lines 14-35) and the module's entry point (lines 38-39)            *)
(***************************************************************************)
Init ==
    /\ pc = "create_parser"
    /\ argv = <<>>
    /\ verbosity = "default"
    /\ subparsers = <<>>
    /\ args = EmptyNamespace
    /\ unknown_args = <<>>
    /\ kwargs = <<>>
    /\ factoryCalls = <<>>
    /\ service = NoService
    /\ runCalls = 0
    /\ runReturned = NotRun
    /\ exitCode = -1
    /\ log = <<>>

\* The process ends with the given status after emitting the given event.
Exit(event, status) ==
    /\ pc' = "exited"
    /\ exitCode' = status
    /\ log' = Append(log, event)

\* parser = ArgumentParser(...)
CreateParser ==
    /\ pc = "create_parser"
    /\ pc' = "add_subparsers"
    /\ log' = Append(log, "create_parser")
    /\ UNCHANGED <<argv, verbosity, subparsers, args, unknown_args, kwargs,
                   factoryCalls, service, runCalls, runReturned, exitCode>>

\* commands_parser = parser.add_subparsers(...)
AddSubparsers ==
    /\ pc = "add_subparsers"
    /\ pc' = "set_verbosity"
    /\ subparsers' = <<>>
    /\ log' = Append(log, "add_subparsers")
    /\ UNCHANGED <<argv, verbosity, args, unknown_args, kwargs,
                   factoryCalls, service, runCalls, runReturned, exitCode>>

\* A variant of line 19 that leaves the verbosity alone.
SetVerbosity_skipped ==
    /\ pc = "set_verbosity"
    /\ pc' = "register_env"
    /\ UNCHANGED <<argv, verbosity, subparsers, args, unknown_args, kwargs,
                   factoryCalls, service, runCalls, runReturned, exitCode, log>>

\* set_verbosity_info()
SetVerbosity ==
    /\ pc = "set_verbosity"
    /\ pc' = "register_env"
    /\ verbosity' = "info"
    /\ log' = Append(log, "set_verbosity")
    /\ UNCHANGED <<argv, subparsers, args, unknown_args, kwargs,
                   factoryCalls, service, runCalls, runReturned, exitCode>>

\* X.register_subcommand(commands_parser)
Register(at, sub, event, next) ==
    /\ pc = at
    /\ pc' = next
    /\ subparsers' = Append(subparsers, sub)
    /\ log' = Append(log, event)
    /\ UNCHANGED <<argv, verbosity, args, unknown_args, kwargs,
                   factoryCalls, service, runCalls, runReturned, exitCode>>

RegisterEnv == Register("register_env", EnvSub, "register_env", "register_test")

RegisterTest == Register("register_test", TestSub, "register_test", "register_delete")

RegisterDelete == Register("register_delete", DeleteSub, "register_delete", "parse")

\* args, unknown_args = parser.parse_known_args(): argparse itself ends the
\* process with status 0 after printing help for -h, and with status 2
\* after a usage error.
ParseArgs ==
    /\ pc = "parse"
    /\ \E a \in Argvs :
         LET r == parse_known_args(a, subparsers)
         IN  /\ argv' = a
             /\ IF r.kind = "parsed"
                THEN /\ args' = r.args
                     /\ unknown_args' = r.unknown
                     /\ pc' = "check_func"
                     /\ log' = Append(log, "parse")
                     /\ UNCHANGED exitCode
                ELSE /\ Exit(IF r.kind = "help_exit" THEN "argparse_help"
                                                     ELSE "usage_error",
                             IF r.kind = "help_exit" THEN 0 ELSE 2)
                     /\ UNCHANGED <<args, unknown_args>>
    /\ UNCHANGED <<verbosity, subparsers, kwargs, factoryCalls, service,
                   runCalls, runReturned>>

\* if not hasattr(args, "func"): parser.print_help(); exit(1)
CheckFunc ==
    /\ pc = "check_func"
    /\ IF ~hasattr_func(args)
       THEN Exit("print_help", 1)
       ELSE /\ pc' = "fold"
            /\ UNCHANGED <<exitCode, log>>
    /\ UNCHANGED <<argv, verbosity, subparsers, args, unknown_args, kwargs,
                   factoryCalls, service, runCalls, runReturned>>

\* kwargs = parse_unknown_args(unknown_args)
Fold ==
    /\ pc = "fold"
    /\ kwargs' = parse_unknown_args(unknown_args)
    /\ pc' = "construct"
    /\ log' = Append(log, "fold")
    /\ UNCHANGED <<argv, verbosity, subparsers, args, unknown_args,
                   factoryCalls, service, runCalls, runReturned, exitCode>>

\* A variant of line 34 that carries on to service.run() when the factory
\* raises.
Construct_swallowing ==
    /\ pc = "construct"
    /\ \E ok \in BOOLEAN :
         /\ factoryCalls' = Append(factoryCalls,
                                   [func |-> args.func, args |-> args, kwargs |-> kwargs])
         /\ service' = IF ok THEN args.func ELSE NoService
         /\ pc' = "run"
         /\ log' = Append(log, IF ok THEN "factory" ELSE "factory_raised")
    /\ UNCHANGED <<argv, verbosity, subparsers, args, unknown_args, kwargs,
                   runCalls, runReturned, exitCode>>

\* A variant of line 34 that calls the factory without the keyword
\* options: args.func(args).
Construct_nokwargs ==
    /\ pc = "construct"
    /\ \E ok \in BOOLEAN :
         /\ factoryCalls' = Append(factoryCalls,
                                   [func |-> args.func, args |-> args, kwargs |-> <<>>])
         /\ IF ok
            THEN /\ service' = args.func
                 /\ pc' = "run"
                 /\ log' = Append(log, "factory")
                 /\ UNCHANGED exitCode
            ELSE /\ pc' = "exited"
                 /\ exitCode' = 1
                 /\ log' = log \o <<"factory_raised", "traceback">>
                 /\ UNCHANGED service
    /\ UNCHANGED <<argv, verbosity, subparsers, args, unknown_args, kwargs,
                   runCalls, runReturned>>

\* service = args.func(args, **kwargs): the factory returns a service or
\* raises; nothing catches what it raises, and the interpreter ends an
\* uncaught exception with a traceback and status 1.  Reading args.func of
\* a Namespace without it raises before any call is made.
Construct ==
    /\ pc = "construct"
    /\ IF args.func = NoFunc
       THEN /\ Exit("traceback", 1)
            /\ UNCHANGED <<factoryCalls, service>>
       ELSE \E ok \in BOOLEAN :
              /\ factoryCalls' = Append(factoryCalls,
                                        [func |-> args.func, args |-> args, kwargs |-> kwargs])
              /\ IF ok
                 THEN /\ service' = args.func
                      /\ pc' = "run"
                      /\ log' = Append(log, "factory")
                      /\ UNCHANGED exitCode
                 ELSE /\ pc' = "exited"
                      /\ exitCode' = 1
                      /\ log' = log \o <<"factory_raised", "traceback">>
                      /\ UNCHANGED service
    /\ UNCHANGED <<argv, verbosity, subparsers, args, unknown_args, kwargs,
                   runCalls, runReturned>>

\* What service.run() can do: return some value, or raise.
RunOutcomes == {"None", "nonzero", "raise"}

\* A variant of the end of main that hands run's return value to the
\* process as its status (as sys.exit(service.run()) would).
Run_status ==
    /\ pc = "run"
    /\ \E r \in RunOutcomes :
         /\ runCalls' = runCalls + 1
         /\ runReturned' = IF r = "raise" THEN runReturned ELSE r
         /\ pc' = "exited"
         /\ exitCode' = IF r = "None" THEN 0 ELSE 1
         /\ log' = Append(log, "run")
    /\ UNCHANGED <<argv, verbosity, subparsers, args, unknown_args, kwargs,
                   factoryCalls, service>>

\* service.run(): its return value is dropped; what it raises is not
\* caught.
Run ==
    /\ pc = "run"
    /\ \E r \in RunOutcomes :
         /\ runCalls' = runCalls + 1
         /\ IF r = "raise"
            THEN /\ pc' = "exited"
                 /\ exitCode' = 1
                 /\ log' = log \o <<"run_raised", "traceback">>
                 /\ UNCHANGED runReturned
            ELSE /\ runReturned' = r
                 /\ pc' = "return"
                 /\ log' = Append(log, "run")
                 /\ UNCHANGED exitCode
    /\ UNCHANGED <<argv, verbosity, subparsers, args, unknown_args, kwargs,
                   factoryCalls, service>>

\* main() returns and the script ends: status 0.
MainReturns ==
    /\ pc = "return"
    /\ Exit("return", 0)
    /\ UNCHANGED <<argv, verbosity, subparsers, args, unknown_args, kwargs,
                   factoryCalls, service, runCalls, runReturned>>

Next ==
    \/ CreateParser
    \/ AddSubparsers
    \/ SetVerbosity
    \/ RegisterEnv
    \/ RegisterTest
    \/ RegisterDelete
    \/ ParseArgs
    \/ CheckFunc
    \/ Fold
    \/ Construct
    \/ Run
    \/ MainReturns

Spec == Init /\ [][Next]_vars

(***************************************************************************)
(* parse_unknown_args on its own: any bounded token list is folded.        *)
(***************************************************************************)
FoldInit ==
    /\ pc = "fold"
    /\ argv = <<>>
    /\ verbosity = "info"
    /\ subparsers = <<EnvSub, TestSub, DeleteSub>>
    /\ args = [func |-> "EnvironmentCommand", flags |-> {}]
    /\ unknown_args \in UnknownLists
    /\ kwargs = <<>>
    /\ factoryCalls = <<>>
    /\ service = NoService
    /\ runCalls = 0
    /\ runReturned = NotRun
    /\ exitCode = -1
    /\ log = <<>>

FoldNext == Fold

FoldSpec == FoldInit /\ [][FoldNext]_vars

(***************************************************************************)
(* Vocabulary of the properties.  The stripped form of a key is stated     *)
(* here by what str.lstrip("-") promises, not by how lstrip computes it.   *)
(***************************************************************************)
Suffixes(tok) == {SubSeq(tok, k + 1, Len(tok)) : k \in 0..Len(tok)}

IsStrippedOf(r, tok) ==
    \E k \in 0..Len(tok) :
        /\ r = SubSeq(tok, k + 1, Len(tok))
        /\ \A j \in 1..k : tok[j] = Dash
        /\ (r = <<>> \/ r[1] # Dash)

StrippedKey(tok) == CHOOSE r \in Suffixes(tok) : IsStrippedOf(r, tok)

\* The pairs (2j-1, 2j) of a token list.
PairIndexes(u) == 1..(Len(u) \div 2)

PairKey(u, j) == StrippedKey(u[2 * j - 1])

PairValue(u, j) == u[2 * j]

\* Pair j is the last pair of u with its stripped key.
IsLastWithKey(u, j) ==
    \A j2 \in PairIndexes(u) : PairKey(u, j2) = PairKey(u, j) => j2 <= j

DistinctPairKeys(u) ==
    \A j1, j2 \in PairIndexes(u) : PairKey(u, j1) = PairKey(u, j2) => j1 = j2

HasEntry(d, k, v) == \E i \in 1..Len(d) : d[i].key = k /\ d[i].value = v

InLog(e) == \E i \in 1..Len(log) : log[i] = e

Count(e) == Cardinality({i \in 1..Len(log) : log[i] = e})

LastEvent == IF log = <<>> THEN "none" ELSE log[Len(log)]

\* parse_known_args has returned or has ended the process.
ArgvRead ==
    pc \in {"check_func", "fold", "construct", "run", "return", "exited"}

Folded == InLog("fold")

Exited == pc = "exited"

RegisteredNames == {EnvSub.name, TestSub.name, DeleteSub.name}

FactoryOf(name) ==
    (CHOOSE sub \in {EnvSub, TestSub, DeleteSub} : sub.name = name).func

TerminalEvents ==
    {"return", "print_help", "argparse_help", "usage_error", "traceback"}

\* Position of the command name in argv: the first token argparse does not
\* take for an option; 0 when there is none.
CommandPos ==
    IF \E i \in 1..Len(argv) : ~IsOptionalLike(argv[i])
    THEN CHOOSE i \in 1..Len(argv) :
            /\ ~IsOptionalLike(argv[i])
            /\ \A j \in 1..(i - 1) : IsOptionalLike(argv[j])
    ELSE 0

(***************************************************************************)
(* Properties of parse_unknown_args, checked under FoldSpec                *)
(***************************************************************************)

\* C1 as stated: for every token list of even length the mapping has
\* exactly len/2 entries, entry j holding the stripped token 2j-1 as key
\* and token 2j as value.
C1_EvenListGivesHalfAsManyEntries ==
    (pc = "construct" /\ Len(unknown_args) % 2 = 0) =>
        /\ Len(kwargs) = Len(unknown_args) \div 2
        /\ \A j \in PairIndexes(unknown_args) :
              /\ kwargs[j].key = PairKey(unknown_args, j)
              /\ kwargs[j].value = PairValue(unknown_args, j)

\* C1, amended: for every token list of even length whose even-indexed
\* tokens stay pairwise distinct once their leading dashes are stripped,
\* the mapping has exactly len/2 entries, entry j holding the stripped
\* token 2j-1 as key and token 2j as value, in the original order; when
\* stripped keys repeat the mapping has fewer than len/2 entries.
C1_EvenListWithDistinctKeys ==
    (pc = "construct" /\ Len(unknown_args) % 2 = 0) =>
        /\ DistinctPairKeys(unknown_args) =>
              /\ Len(kwargs) = Len(unknown_args) \div 2
              /\ \A j \in PairIndexes(unknown_args) :
                    /\ kwargs[j].key = PairKey(unknown_args, j)
                    /\ kwargs[j].value = PairValue(unknown_args, j)
        /\ ~DistinctPairKeys(unknown_args) =>
              Len(kwargs) < Len(unknown_args) \div 2

C1_Witness ==
    /\ pc = "construct"
    /\ Len(unknown_args) = 4
    /\ DistinctPairKeys(unknown_args)
    /\ Len(kwargs) = 2
    /\ kwargs[1].key # unknown_args[1]

\* C10: no key of the mapping begins with a dash, and a key token made
\* only of dashes gives the empty key; every value is the unaltered token
\* that follows the last pair with its key; the keys of the mapping are
\* distinct and there are as many entries as distinct stripped keys.
C10_KeysStrippedValuesKeptLastWins ==
    pc = "construct" =>
        /\ \A i \in 1..Len(kwargs) :
              /\ kwargs[i].key = <<>> \/ kwargs[i].key[1] # Dash
              /\ \E j \in PairIndexes(unknown_args) :
                    /\ kwargs[i].key = PairKey(unknown_args, j)
                    /\ IsLastWithKey(unknown_args, j)
                    /\ kwargs[i].value = PairValue(unknown_args, j)
        /\ \A j \in PairIndexes(unknown_args) :
              /\ \E i \in 1..Len(kwargs) : kwargs[i].key = PairKey(unknown_args, j)
              /\ (\A c \in 1..Len(unknown_args[2 * j - 1]) :
                     unknown_args[2 * j - 1][c] = Dash)
                 => \E i \in 1..Len(kwargs) : kwargs[i].key = <<>>
        /\ \A i1, i2 \in 1..Len(kwargs) :
              kwargs[i1].key = kwargs[i2].key => i1 = i2
        /\ Len(kwargs) =
              Cardinality({PairKey(unknown_args, j) : j \in PairIndexes(unknown_args)})

\* "-verbose" and "--verbose" collide and the later value, itself beginning
\* with dashes, is the one kept.
C10_Witness ==
    /\ pc = "construct"
    /\ unknown_args = <<TokShortKey, TokWord, TokLongKey, TokLongKey>>
    /\ kwargs = <<[key |-> <<"verbose">>, value |-> TokLongKey]>>

(***************************************************************************)
(* Properties of main, checked under Spec                                  *)
(***************************************************************************)

\* C2: run with no arguments, main prints help and the process ends with
\* exit code 1; no exception surfaces, no factory is called and no service
\* is constructed or run.
C2_NoArgumentsHelpAndExit1 ==
    (ArgvRead /\ argv = <<>>) =>
        /\ pc \in {"check_func", "exited"}
        /\ args.func = NoFunc
        /\ factoryCalls = <<>>
        /\ service = NoService
        /\ runCalls = 0
        /\ ~InLog("traceback")
        /\ Exited => (exitCode = 1 /\ LastEvent = "print_help")

C2_Witness ==
    /\ Exited
    /\ argv = <<>>
    /\ LastEvent = "print_help"
    /\ exitCode = 1

\* C3 as stated: a first token in the subcommand's place that is not a
\* registered subcommand name behaves as no subcommand does: help is
\* printed by main and the process ends with exit code 1.
C3_UnregisteredNameIsLikeNoSubcommand ==
    (Exited /\ argv # <<>> /\ ~IsOptionalLike(argv[1])
            /\ argv[1] \notin RegisteredNames) =>
        (exitCode = 1 /\ LastEvent = "print_help")

\* C3, amended: a first token that is a plain word (not an option) and not
\* a registered subcommand name is rejected by the parser itself: the
\* process ends with a usage error and exit code 2, main's own help-and-
\* exit-1 branch is never reached, and, as with no subcommand, no factory
\* is called and no service is constructed or run.
C3_UnregisteredNameIsUsageError ==
    (ArgvRead /\ argv # <<>> /\ ~IsOptionalLike(argv[1])
              /\ argv[1] \notin RegisteredNames) =>
        /\ Exited
        /\ exitCode = 2
        /\ LastEvent = "usage_error"
        /\ ~InLog("print_help")
        /\ ~InLog("parse")
        /\ args = EmptyNamespace
        /\ factoryCalls = <<>>
        /\ service = NoService
        /\ runCalls = 0

C3_Witness ==
    /\ Exited
    /\ argv = <<TokWord>>
    /\ exitCode = 2

\* C4: run with just a registered subcommand name, main calls that
\* subcommand's factory, and no other, exactly once with an empty option
\* map, and calls run exactly once on the service the factory returned,
\* after the construction.
C4_SingleCommandOneServiceOneRun ==
    (ArgvRead /\ Len(argv) = 1 /\ argv[1] \in RegisteredNames) =>
        /\ args.func = FactoryOf(argv[1])
        /\ unknown_args = <<>>
        /\ Len(factoryCalls) <= 1
        /\ runCalls <= 1
        /\ \A i \in 1..Len(factoryCalls) :
              /\ factoryCalls[i].func = FactoryOf(argv[1])
              /\ factoryCalls[i].kwargs = <<>>
        /\ pc \in {"run", "return", "exited"} => Len(factoryCalls) = 1
        /\ service # NoService => service = FactoryOf(argv[1])
        /\ service = NoService => runCalls = 0
        /\ (service # NoService /\ pc \in {"return", "exited"}) => runCalls = 1
        /\ runCalls = 1 =>
              \E i, j \in 1..Len(log) :
                  /\ i < j
                  /\ log[i] = "factory"
                  /\ log[j] \in {"run", "run_raised"}

C4_Witness ==
    /\ Exited
    /\ argv = <<TokEnv>>
    /\ factoryCalls = <<[func |-> "EnvironmentCommand",
                         args |-> [func |-> "EnvironmentCommand", flags |-> {}],
                         kwargs |-> <<>>]>>
    /\ runCalls = 1
    /\ exitCode = 0

\* The tokens of argv that parse_known_args leaves over when a subcommand
\* is selected: all but the command name and the flags the command
\* declares that follow it.
LeftoverPositions ==
    {i \in 1..Len(argv) :
        /\ i # CommandPos
        /\ ~(i > CommandPos /\ \E sub \in {EnvSub, TestSub, DeleteSub} :
                                   sub.name = argv[CommandPos] /\ argv[i] \in sub.flags)}

\* The tokens of argv at the given positions from i on, in order.
RECURSIVE TokensAt(_, _)
TokensAt(positions, i) ==
    IF i > Len(argv) THEN <<>>
    ELSE (IF i \in positions THEN <<argv[i]>> ELSE <<>>) \o TokensAt(positions, i + 1)

\* A "--key value" pair at positions i, i+1 of argv, after the command
\* name, that matches no flag the selected command declares.
IsUndeclaredKeyValuePair(i) ==
    /\ i > CommandPos
    /\ i + 1 <= Len(argv)
    /\ Len(argv[i]) > 2 /\ argv[i][1] = Dash /\ argv[i][2] = Dash
    /\ i \in LeftoverPositions
    /\ argv[i + 1][1] # Dash

\* C5 as stated: when a subcommand is selected, every "--key value" pair
\* of tokens that matches no declared flag reaches the factory as the
\* named option key=value, dashes stripped from the key.
C5_EveryUndeclaredPairIsForwarded ==
    \A c \in 1..Len(factoryCalls) :
        \A i \in 1..Len(argv) :
            IsUndeclaredKeyValuePair(i) =>
                HasEntry(factoryCalls[c].kwargs, StrippedKey(argv[i]), argv[i + 1])

\* C5, amended: when a subcommand is selected its factory, and only it, is
\* given the structured parse result and, as named options, the map folded
\* from the leftover tokens (the tokens of the command line other than the
\* command name and its declared flags, in order); a leftover pair reaches
\* the factory as key=value when it sits at positions (2j-1, 2j) of the
\* leftover list and no later such pair has the same stripped key; tokens
\* ["test", "--verbose", "true"] give the test factory {"verbose": "true"}.
C5_LeftoverPairsAreForwarded ==
    \A c \in 1..Len(factoryCalls) :
        /\ factoryCalls[c].func = FactoryOf(argv[CommandPos])
        /\ factoryCalls[c].args = args
        /\ factoryCalls[c].args.flags =
              {argv[i] : i \in {j \in (CommandPos + 1)..Len(argv) : j \notin LeftoverPositions}}
        /\ unknown_args = TokensAt(LeftoverPositions, 1)
        /\ \A j \in PairIndexes(unknown_args) :
              IsLastWithKey(unknown_args, j) =>
                  HasEntry(factoryCalls[c].kwargs,
                           PairKey(unknown_args, j), PairValue(unknown_args, j))
        /\ argv = <<TokTest, TokLongKey, TokWord>> =>
              /\ factoryCalls[c].func = "TestCommand"
              /\ factoryCalls[c].kwargs = <<[key |-> <<"verbose">>, value |-> <<"true">>]>>

C5_Witness ==
    /\ argv = <<TokTest, TokLongKey, TokWord>>
    /\ Len(factoryCalls) = 1
    /\ factoryCalls[1].kwargs = <<[key |-> <<"verbose">>, value |-> <<"true">>]>>

\* C6 as stated: when the leftover token list has odd length the
\* invocation ends in a runtime failure; it does not complete normally
\* with a mapping built from the remaining pairs.
C6_OddListEndsInFailure ==
    (Exited /\ Folded /\ Len(unknown_args) % 2 = 1) =>
        (exitCode # 0 /\ InLog("traceback"))

\* C6, amended: when the leftover token list has odd length the fold is
\* not validated and does not fail: the trailing token is dropped, the
\* mapping is built from the pairs before it, the factory is called with
\* it, and an invocation whose factory and run do not raise completes
\* normally with exit code 0.
C6_OddListDropsTrailingToken ==
    (Folded /\ Len(unknown_args) % 2 = 1) =>
        /\ \A i \in 1..Len(kwargs) :
              \E j \in PairIndexes(unknown_args) :
                  /\ 2 * j < Len(unknown_args)
                  /\ kwargs[i].key = PairKey(unknown_args, j)
                  /\ kwargs[i].value = PairValue(unknown_args, j)
        /\ \A j \in PairIndexes(unknown_args) :
              IsLastWithKey(unknown_args, j) =>
                  HasEntry(kwargs, PairKey(unknown_args, j), PairValue(unknown_args, j))
        /\ pc \in {"construct", "run", "return", "exited"}
        /\ pc # "construct" =>
              /\ Len(factoryCalls) = 1
              /\ factoryCalls[1].kwargs = kwargs
        /\ (Exited /\ ~InLog("factory_raised") /\ ~InLog("run_raised")) =>
              (exitCode = 0 /\ LastEvent = "return")

C6_Witness ==
    /\ Exited
    /\ exitCode = 0
    /\ unknown_args = <<TokLongKey, TokWord, TokShortKey>>
    /\ kwargs = <<[key |-> <<"verbose">>, value |-> <<"true">>]>>
    /\ runCalls = 1

\* C7: a failure raised by the factory or by run is not caught: the
\* process ends there with a traceback and a non-zero status; nothing is
\* retried (at most one factory call and one run call per invocation); when
\* the factory raises, run is never called.
C7_FailuresPropagate ==
    /\ Len(factoryCalls) <= 1
    /\ runCalls <= 1
    /\ InLog("factory_raised") =>
          /\ Exited
          /\ exitCode # 0
          /\ LastEvent = "traceback"
          /\ Len(factoryCalls) = 1
          /\ service = NoService
          /\ runCalls = 0
          /\ ~InLog("run") /\ ~InLog("run_raised")
    /\ InLog("run_raised") =>
          /\ Exited
          /\ exitCode # 0
          /\ LastEvent = "traceback"
          /\ Len(factoryCalls) = 1
          /\ runCalls = 1
          /\ Count("run_raised") = 1
          /\ ~InLog("run")
          /\ runReturned = NotRun

C7_Witness ==
    /\ Exited
    /\ InLog("factory_raised")
    /\ exitCode = 1
    /\ runCalls = 0

\* The other case of C7: run raised.
C7_RunRaisedCase ==
    /\ Exited
    /\ InLog("run_raised")
    /\ exitCode = 1
    /\ runCalls = 1

\* No token of argv is in the subcommand's place.
NoSubcommandSupplied == CommandPos = 0

\* C8 as stated: every invocation ends in one terminal outcome, exit code
\* 0 when a subcommand was selected and run completed normally, and exit
\* code 1 exactly when no subcommand was supplied (help printed); a run
\* that returns normally never yields a non-zero exit code.
C8_Exit1ExactlyWhenNoSubcommand ==
    Exited =>
        /\ exitCode \in {0, 1, 2}
        /\ (args.func # NoFunc /\ runReturned # NotRun) => exitCode = 0
        /\ exitCode = 1 <=> (NoSubcommandSupplied /\ InLog("print_help"))

\* C8, amended: every invocation ends in exactly one terminal outcome:
\* exit code 0 when a subcommand was selected and run completed normally,
\* whatever run returned, or when -h asked the parser for help; exit code
\* 1 with main's help exactly when parsing completed with no subcommand
\* selected; exit code 1 with a traceback exactly when the factory or run
\* raised; exit code 2 exactly when the parser reported a usage error.
C8_OneTerminalOutcome ==
    /\ Exited <=> exitCode # -1
    /\ Cardinality({i \in 1..Len(log) : log[i] \in TerminalEvents}) =
          (IF Exited THEN 1 ELSE 0)
    /\ Exited =>
          /\ LastEvent \in TerminalEvents
          /\ exitCode \in {0, 1, 2}
          /\ exitCode = 0 <=> LastEvent \in {"return", "argparse_help"}
          /\ exitCode = 1 <=> LastEvent \in {"print_help", "traceback"}
          /\ exitCode = 2 <=> LastEvent = "usage_error"
          /\ LastEvent = "return" <=>
                (args.func # NoFunc /\ runCalls = 1 /\ runReturned # NotRun)
          /\ LastEvent = "print_help" <=> (InLog("parse") /\ args.func = NoFunc)
          /\ LastEvent = "print_help" => NoSubcommandSupplied
          /\ LastEvent = "traceback" <=>
                (InLog("factory_raised") \/ InLog("run_raised"))
          /\ LastEvent = "argparse_help" <=>
                \E i \in 1..Len(argv) :
                    /\ argv[i] \in HelpFlags
                    /\ (CommandPos # 0 /\ CommandPos < i) =>
                          argv[CommandPos] \in RegisteredNames
          /\ LastEvent = "usage_error" <=>
                /\ CommandPos # 0
                /\ argv[CommandPos] \notin RegisteredNames
                /\ \A i \in 1..(CommandPos - 1) : argv[i] \notin HelpFlags
          /\ runReturned # NotRun => exitCode = 0

C8_Witness ==
    /\ Exited
    /\ runReturned = "nonzero"
    /\ exitCode = 0
    /\ LastEvent = "return"

\* C9: in every invocation the process-wide verbosity is set exactly once,
\* before any subcommand is registered, before the arguments are parsed
\* and before any factory call or run, and it is not set again, on the
\* help-and-exit path as on the dispatch path; the subcommands are
\* registered in the order environment, test, delete-from-hub, all before
\* the arguments are parsed.
C9_VerbosityOnceThenRegistrationInOrder ==
    /\ Count("set_verbosity") <= 1
    /\ Count("set_verbosity") = 0 =>
          /\ verbosity = "default"
          /\ subparsers = <<>>
          /\ pc \in {"create_parser", "add_subparsers", "set_verbosity"}
          /\ \A i \in 1..Len(log) : log[i] \in {"create_parser", "add_subparsers"}
    /\ Count("set_verbosity") = 1 =>
          /\ verbosity = "info"
          /\ \A i, j \in 1..Len(log) :
                (log[i] = "set_verbosity" /\ i # j) =>
                    (j < i <=> log[j] \in {"create_parser", "add_subparsers"})
    /\ pc \notin {"create_parser", "add_subparsers", "set_verbosity"} =>
          Count("set_verbosity") = 1
    /\ \E n \in 0..3 : subparsers = SubSeq(<<EnvSub, TestSub, DeleteSub>>, 1, n)
    /\ (pc = "parse" \/ ArgvRead) =>
          /\ subparsers = <<EnvSub, TestSub, DeleteSub>>
          /\ Count("register_env") = 1
          /\ Count("register_test") = 1
          /\ Count("register_delete") = 1
          /\ \A i, j \in 1..Len(log) :
                \/ /\ log[i] = "register_env"
                   /\ log[j] = "register_test"
                \/ /\ log[i] = "register_test"
                   /\ log[j] = "register_delete"
                \/ /\ log[i] = "register_delete"
                   /\ log[j] \in {"parse", "argparse_help", "usage_error"}
                => i < j

C9_Witness ==
    /\ Exited
    /\ LastEvent = "print_help"
    /\ Count("set_verbosity") = 1
    /\ verbosity = "info"
    /\ subparsers = <<EnvSub, TestSub, DeleteSub>>

\* The dispatch path of C9.
C9_DispatchCase ==
    /\ Exited
    /\ runCalls = 1
    /\ Count("set_verbosity") = 1
    /\ verbosity = "info"

====
